---- MODULE Spec2Model ----
(***************************************************************************)
(* Model of VigenereDecipher.py: Kasiski examination, index of            *)
(* coincidence, chi-squared key recovery and Vigenere decryption.         *)
(*                                                                         *)
(* Characters are modelled by their code points (ord), strings by          *)
(* sequences of code points, Python dicts and Counters by sequences of     *)
(* <<key, value>> pairs in insertion order.                                *)
(***************************************************************************)
EXTENDS Integers, Sequences, FiniteSets, TLC

VARIABLES
    \* get_divisors(n)
    dn, di, divs, dres, dpc,
    \* decrypt_vigenere(text, key)
    plain, dkey, dtext, dpos, ki, result, decpc,
    \* index_of_coincidence(text)
    ictext, icres, icpc,
    \* kasiski_test(text, n, top_k, threshold)
    ktext, kn, ktopk, kthr, kdist, kidx, list_a, ballots, ktop, kpc,
    \* __main__
    text, pc, tidx, list_dicts, possible_keys_length, greatest, cidx, key, output

divVars == <<dn, di, divs, dres, dpc>>
decVars == <<plain, dkey, dtext, dpos, ki, result, decpc>>
icVars == <<ictext, icres, icpc>>
kasVars == <<ktext, kn, ktopk, kthr, kdist, kidx, list_a, ballots, ktop, kpc>>
mainVars == <<text, pc, tidx, list_dicts, possible_keys_length, greatest, cidx, key, output>>
vars == <<divVars, decVars, icVars, kasVars, mainVars>>
\* What each component leaves alone.
notDiv == <<decVars, icVars, kasVars, mainVars>>
notDec == <<divVars, icVars, kasVars, mainVars>>
notIc == <<divVars, decVars, kasVars, mainVars>>
notKas == <<divVars, decVars, icVars, mainVars>>
notMain == <<divVars, decVars, icVars, kasVars>>

(***************************************************************************)
(* Bounds of the model.                                                    *)
(***************************************************************************)
MaxN == 120
MaxPlainLen == 3
MaxKeyLen == 2
MaxIcLen == 5
MaxKasLen == 6
MaxKasParam == 3
MaxTextLen == 12

(***************************************************************************)
(* Program constants.                                                      *)
(***************************************************************************)
OrdA == 65
OrdZ == 90
NLetters == 26
top == 3

(***************************************************************************)
(* Generic helpers.                                                        *)
(***************************************************************************)
Range(s) == {s[j] : j \in 1..Len(s)}

\* All sequences over S of length 0..n.
SeqsUpTo(S, n) == UNION {[1..m -> S] : m \in 0..n}

Min(S) == CHOOSE x \in S : \A y \in S : x <= y

RECURSIVE SortSet(_)
\* sorted(divs): the ascending sequence of the elements of a set of integers.
SortSet(S) == IF S = {} THEN <<>> ELSE <<Min(S)>> \o SortSet(S \ {Min(S)})

RECURSIVE SumSeq(_)
SumSeq(s) == IF s = <<>> THEN 0 ELSE Head(s) + SumSeq(Tail(s))

\* Number of positions of s holding x.
Occurrences(s, x) == Cardinality({j \in 1..Len(s) : s[j] = x})

(***************************************************************************)
(* get_divisors                                                            *)
(***************************************************************************)
\* math.isqrt(n) for n >= 0.
Isqrt(n) == CHOOSE r \in 0..n : r * r <= n /\ (r + 1) * (r + 1) > n

DivStepNoQuotient(n, i, ds) == IF n % i = 0 THEN ds \cup {i} ELSE ds

\* One iteration of the loop body: if n % i == 0, add i and n // i.
DivStep(n, i, ds) == IF n % i = 0 THEN ds \cup {i, n \div i} ELSE ds

RECURSIVE DivLoop(_, _, _, _)
\* for i in range(2, limit+1), from iteration i onwards.
DivLoop(n, i, limit, ds) ==
    IF i > limit THEN ds ELSE DivLoop(n, i + 1, limit, DivStep(n, i, ds))

\* divs.add(n); return sorted(divs)
DivFinish(n, ds) == SortSet(ds \cup {n})

\* get_divisors(n) as a function of n.
get_divisors(n) == DivFinish(n, DivLoop(n, 2, Isqrt(n), {}))

DivIdle == dn = 0 /\ di = 0 /\ divs = {} /\ dres = <<>> /\ dpc = "idle"

DivInit == /\ dn \in 0..MaxN
           /\ di = 2
           /\ divs = {}
           /\ dres = <<>>
           /\ dpc = "loop"

DivIterate == /\ dpc = "loop"
              /\ di <= Isqrt(dn)
              /\ divs' = DivStep(dn, di, divs)
              /\ di' = di + 1
              /\ UNCHANGED <<dn, dres, dpc, notDiv>>

DivReturn == /\ dpc = "loop"
             /\ di > Isqrt(dn)
             /\ dres' = DivFinish(dn, divs)
             /\ dpc' = "done"
             /\ UNCHANGED <<dn, di, divs, notDiv>>

(***************************************************************************)
(* decrypt_vigenere                                                        *)
(***************************************************************************)
\* 'A' <= c <= 'Z'
IsUpper(c) == OrdA <= c /\ c <= OrdZ

\* shift = ord(key[ki % len(key)]) - ord('A')   (len(key) > 0)
KeyShift(k, i) == k[(i % Len(k)) + 1] - OrdA

DecCharForward(c, shift) == ((c - OrdA + shift) % NLetters) + OrdA

\* dec = (ord(c) - ord('A') - shift) % 26 + ord('A')
DecChar(c, shift) == ((c - OrdA - shift) % NLetters) + OrdA

DecStepAlwaysAdvance(c, k, i, res) ==
    IF IsUpper(c)
    THEN [ki |-> i + 1, result |-> Append(res, DecChar(c, KeyShift(k, i)))]
    ELSE [ki |-> i + 1, result |-> Append(res, c)]

\* One iteration of "for c in text" that does not raise: the new key cursor
\* and the new result list.
DecStep(c, k, i, res) ==
    IF IsUpper(c)
    THEN [ki |-> i + 1, result |-> Append(res, DecChar(c, KeyShift(k, i)))]
    ELSE [ki |-> i, result |-> Append(res, c)]

\* ki % len(key) raises ZeroDivisionError on an A-Z character when key = ''.
DecRaises(c, k) == IsUpper(c) /\ Len(k) = 0

RECURSIVE DecLoop(_, _, _, _, _)
DecLoop(t, k, p, i, res) ==
    IF p > Len(t) THEN [raised |-> FALSE, out |-> res]
    ELSE IF DecRaises(t[p], k) THEN [raised |-> TRUE, out |-> res]
    ELSE LET st == DecStep(t[p], k, i, res)
         IN  DecLoop(t, k, p + 1, st.ki, st.result)

\* decrypt_vigenere(text, key) as a function: the returned string, or the
\* ZeroDivisionError it raises.
decrypt_vigenere(t, k) == DecLoop(t, k, 1, 0, <<>>)

\* The forward-shift encryptor of the round-trip law: the i-th character c
\* of T (0-based), a letter, becomes (c + K[i mod len(K)]) mod 26.
Encrypt(T, K) ==
    [j \in 1..Len(T) |->
        IF IsUpper(T[j]) /\ Len(K) > 0
        THEN ((T[j] - OrdA + KeyShift(K, j - 1)) % NLetters) + OrdA
        ELSE T[j]]

\* 'A', 'B', 'Z', ' ', 'a'
DecChars == {65, 66, 90, 32, 97}
\* 'A', 'B', 'Z'
KeyChars == {65, 66, 90}

DecIdle == /\ plain = <<>> /\ dkey = <<>> /\ dtext = <<>> /\ dpos = 0
           /\ ki = 0 /\ result = <<>> /\ decpc = "idle"

DecInit == /\ plain \in SeqsUpTo(DecChars, MaxPlainLen)
           /\ dkey \in SeqsUpTo(KeyChars, MaxKeyLen)
           /\ dtext = Encrypt(plain, dkey)
           /\ dpos = 1
           /\ ki = 0
           /\ result = <<>>
           /\ decpc = "scan"

DecScan == /\ decpc = "scan"
           /\ dpos <= Len(dtext)
           /\ ~DecRaises(dtext[dpos], dkey)
           /\ LET st == DecStep(dtext[dpos], dkey, ki, result)
              IN  ki' = st.ki /\ result' = st.result
           /\ dpos' = dpos + 1
           /\ UNCHANGED <<plain, dkey, dtext, decpc, notDec>>

DecRaise == /\ decpc = "scan"
            /\ dpos <= Len(dtext)
            /\ DecRaises(dtext[dpos], dkey)
            /\ decpc' = "ZeroDivisionError"
            /\ UNCHANGED <<plain, dkey, dtext, dpos, ki, result, notDec>>

DecReturn == /\ decpc = "scan"
             /\ dpos > Len(dtext)
             /\ decpc' = "done"
             /\ UNCHANGED <<plain, dkey, dtext, dpos, ki, result, notDec>>

(***************************************************************************)
(* Python floats are modelled by exact rationals <<num, den>> in lowest    *)
(* terms with den > 0.                                                     *)
(***************************************************************************)
RECURSIVE GCD(_, _)
GCD(a, b) == IF b = 0 THEN a ELSE GCD(b, a % b)

Rat(num, den) == LET g == GCD(num, den) IN <<num \div g, den \div g>>
RatZero == <<0, 1>>
RatAdd(a, b) == Rat(a[1] * b[2] + b[1] * a[2], a[2] * b[2])
RatDivInt(a, k) == Rat(a[1], a[2] * k)
RatGT(a, b) == a[1] * b[2] > b[1] * a[2]

RECURSIVE RatSum(_)
RatSum(s) == IF s = <<>> THEN RatZero ELSE RatAdd(Head(s), RatSum(Tail(s)))

(***************************************************************************)
(* collections.Counter                                                     *)
(***************************************************************************)
\* Index of key k in a sequence of <<key, value>> pairs, 0 when absent.
IndexOfKey(d, k) ==
    IF \E j \in 1..Len(d) : d[j][1] = k
    THEN CHOOSE j \in 1..Len(d) : d[j][1] = k
    ELSE 0

\* dict.get(k, 0)
DictGet(d, k) == IF IndexOfKey(d, k) = 0 THEN 0 ELSE d[IndexOfKey(d, k)][2]

\* d[k] = d.get(k, 0) + v : a new key goes last, an old key keeps its place.
DictAdd(d, k, v) ==
    IF IndexOfKey(d, k) = 0 THEN Append(d, <<k, v>>)
    ELSE [d EXCEPT ![IndexOfKey(d, k)] = <<k, d[IndexOfKey(d, k)][2] + v>>]

\* Counter(s): the distinct elements of s in first-encountered order, each
\* with the number of its occurrences.
Counter(s) ==
    LET firsts == SortSet({j \in 1..Len(s) : \A i \in 1..(j - 1) : s[i] # s[j]})
    IN  [m \in 1..Len(firsts) |-> <<s[firsts[m]], Occurrences(s, s[firsts[m]])>>]

DictValues(d) == [j \in 1..Len(d) |-> d[j][2]]
DictKeys(d) == [j \in 1..Len(d) |-> d[j][1]]

(***************************************************************************)
(* index_of_coincidence                                                    *)
(***************************************************************************)
IcTermSquare(f) == f * f

\* f * (f - 1)
IcTerm(f) == f * (f - 1)

index_of_coincidence(t) ==
    LET N == Len(t)
        freq == Counter(t)
        numerator == SumSeq([j \in 1..Len(freq) |-> IcTerm(freq[j][2])])
    IN  IF N <= 1 THEN RatZero ELSE Rat(numerator, N * (N - 1))

\* 'A', 'B', 'C'
IcChars == {65, 66, 67}

IcIdle == ictext = <<>> /\ icres = RatZero /\ icpc = "idle"

IcInit == /\ ictext \in SeqsUpTo(IcChars, MaxIcLen)
          /\ icres = RatZero
          /\ icpc = "call"

IcCall == /\ icpc = "call"
          /\ icres' = index_of_coincidence(ictext)
          /\ icpc' = "done"
          /\ UNCHANGED <<ictext, notIc>>

(***************************************************************************)
(* extract_ngram_positions, compute_pairwise_distances                     *)
(***************************************************************************)
\* positions[ngram].append(i) on a defaultdict(list)
PosAdd(d, ng, i) ==
    IF IndexOfKey(d, ng) = 0 THEN Append(d, <<ng, <<i>>>>)
    ELSE [d EXCEPT ![IndexOfKey(d, ng)] = <<ng, Append(d[IndexOfKey(d, ng)][2], i)>>]

RECURSIVE ExtractLoop(_, _, _, _)
\* for i in range(len(text) - n + 1), from iteration i onwards (i is 0-based).
ExtractLoop(t, n, i, d) ==
    IF i >= Len(t) - n + 1 THEN d
    ELSE ExtractLoop(t, n, i + 1, PosAdd(d, SubSeq(t, i + 1, i + n), i))

Retained(e, threshold) == Len(e[2]) >= threshold

extract_ngram_positions(t, n, threshold) ==
    SelectSeq(ExtractLoop(t, n, 0, <<>>), LAMBDA e : Retained(e, threshold))

RECURSIVE DistancesFrom(_, _)
\* for i in range(len(pos_list) - 1): for j in range(i+1, len(pos_list)),
\* from (1-based) i onwards.
DistancesFrom(pos_list, i) ==
    IF i > Len(pos_list) - 1 THEN <<>>
    ELSE [j \in 1..(Len(pos_list) - i) |-> pos_list[i + j] - pos_list[i]]
         \o DistancesFrom(pos_list, i + 1)

\* distances is a defaultdict: an n-gram gets an entry at its first append.
compute_pairwise_distances(positions) ==
    LET all == [e \in 1..Len(positions) |->
                   <<positions[e][1], DistancesFrom(positions[e][2], 1)>>]
    IN  SelectSeq(all, LAMBDA e : e[2] # <<>>)

(***************************************************************************)
(* kasiski_test                                                            *)
(***************************************************************************)
RECURSIVE RemoveAt(_, _)
RemoveAt(s, j) == IF j = 1 THEN Tail(s) ELSE <<Head(s)>> \o RemoveAt(Tail(s), j - 1)

MaxCount(d) == CHOOSE m \in Range(DictValues(d)) : \A j \in 1..Len(d) : d[j][2] <= m

\* The first entry holding the greatest count.
FirstMax(d) == Min({j \in 1..Len(d) : d[j][2] = MaxCount(d)})

RECURSIVE MostCommon(_, _)
\* Counter.most_common(k) = heapq.nlargest(k, items, key=count): the k
\* entries of greatest count, greatest first, equal counts in insertion order.
MostCommon(d, k) ==
    IF k <= 0 \/ d = <<>> THEN <<>>
    ELSE <<d[FirstMax(d)]>> \o MostCommon(RemoveAt(d, FirstMax(d)), k - 1)

RECURSIVE FactorList(_)
\* for d in dist: factor_list.extend(get_divisors(d))
FactorList(dist) ==
    IF dist = <<>> THEN <<>> ELSE get_divisors(Head(dist)) \o FactorList(Tail(dist))

NgramBallotUncapped(dist, top_k) == DictKeys(Counter(FactorList(dist)))

\* The keys of top_divisors = Counter(factor_list).most_common(top_k).
NgramBallot(dist, top_k) == DictKeys(MostCommon(Counter(FactorList(dist)), top_k))

RECURSIVE BallotLoop(_, _, _)
\* for ng, dist in distances.items(): ... list_a.append(key)
BallotLoop(distances, top_k, la) ==
    IF distances = <<>> THEN la
    ELSE BallotLoop(Tail(distances), top_k, la \o NgramBallot(Head(distances)[2], top_k))

\* counter_b = Counter(list_a); top = counter_b.most_common(top_k)
KasTop(la, top_k) == MostCommon(Counter(la), top_k)

\* kasiski_test(text, n, top_k, threshold) as a function.
kasiski_test(t, n, top_k, threshold) ==
    KasTop(BallotLoop(compute_pairwise_distances(
                          extract_ngram_positions(t, n, threshold)), top_k, <<>>),
           top_k)

\* 'A', 'B'
KasChars == {65, 66}

KasIdle == /\ ktext = <<>> /\ kn = 0 /\ ktopk = 0 /\ kthr = 0 /\ kdist = <<>>
           /\ kidx = 0 /\ list_a = <<>> /\ ballots = <<>> /\ ktop = <<>>
           /\ kpc = "idle"

KasInit == /\ ktext \in SeqsUpTo(KasChars, MaxKasLen)
           /\ kn \in 1..MaxKasParam
           /\ ktopk \in 1..MaxKasParam
           /\ kthr \in 2..MaxKasParam
           /\ kdist = <<>>
           /\ kidx = 0
           /\ list_a = <<>>
           /\ ballots = <<>>
           /\ ktop = <<>>
           /\ kpc = "start"

\* positions = extract_ngram_positions(...); distances = compute_pairwise_distances(...)
KasPrepare == /\ kpc = "start"
              /\ kdist' = compute_pairwise_distances(
                              extract_ngram_positions(ktext, kn, kthr))
              /\ kidx' = 1
              /\ kpc' = "loop"
              /\ UNCHANGED <<ktext, kn, ktopk, kthr, list_a, ballots, ktop, notKas>>

\* One iteration of "for ng, dist in distances.items()". ballots records the
\* top_divisors keys of each iteration.
KasNgram == /\ kpc = "loop"
            /\ kidx <= Len(kdist)
            /\ LET b == NgramBallot(kdist[kidx][2], ktopk)
               IN  /\ list_a' = list_a \o b
                   /\ ballots' = Append(ballots, b)
            /\ kidx' = kidx + 1
            /\ UNCHANGED <<ktext, kn, ktopk, kthr, kdist, ktop, kpc, notKas>>

KasReturn == /\ kpc = "loop"
             /\ kidx > Len(kdist)
             /\ ktop' = KasTop(list_a, ktopk)
             /\ kpc' = "done"
             /\ UNCHANGED <<ktext, kn, ktopk, kthr, kdist, kidx, list_a, ballots, notKas>>

(***************************************************************************)
(* list_to_dict, sum_dicts                                                 *)
(***************************************************************************)
\* d[k] = v
DictSet(d, k, v) ==
    IF IndexOfKey(d, k) = 0 THEN Append(d, <<k, v>>)
    ELSE [d EXCEPT ![IndexOfKey(d, k)] = <<k, v>>]

RECURSIVE DictFrom(_, _)
DictFrom(d, pairs) ==
    IF pairs = <<>> THEN d
    ELSE DictFrom(DictSet(d, Head(pairs)[1], Head(pairs)[2]), Tail(pairs))

\* dict(pairs)
list_to_dict(pairs) == DictFrom(<<>>, pairs)

RECURSIVE SumInto(_, _)
\* for key, freq in d.items(): result[key] = result.get(key, 0) + freq
SumInto(res, d) ==
    IF d = <<>> THEN res ELSE SumInto(DictAdd(res, Head(d)[1], Head(d)[2]), Tail(d))

RECURSIVE sum_dicts(_)
sum_dicts(dicts) ==
    IF dicts = <<>> THEN <<>>
    ELSE SumInto(sum_dicts(SubSeq(dicts, 1, Len(dicts) - 1)), dicts[Len(dicts)])

(***************************************************************************)
(* group, average_ic_for_key_length                                        *)
(***************************************************************************)
\* text[i::key_length] for 0 <= i < key_length
Column(t, i, key_length) ==
    [j \in 1..((Len(t) - i + key_length - 1) \div key_length) |->
        t[i + (j - 1) * key_length + 1]]

group(t, key_length) == [i \in 1..key_length |-> Column(t, i - 1, key_length)]

\* sum(ics) / key_length
average_ic_for_key_length(t, key_length) ==
    LET groups == group(t, key_length)
        ics == [g \in 1..Len(groups) |-> index_of_coincidence(groups[g])]
    IN  RatDivInt(RatSum(ics), key_length)

(***************************************************************************)
(* freq_pt, chi_squared.  Percentages are held in units of 0.0001 % and    *)
(* the chi-squared statistic in units of 0.1, in integer arithmetic: the   *)
(* code computes both in double precision.                                 *)
(***************************************************************************)
\* 'A' .. 'Z', in units of 0.0001 %
freq_pt ==
    << 147154, 9926, 38775, 47958, 127879,
       9868, 11435, 14840, 61426, 2787,
       44, 33069, 48531, 47498, 105498,
       26743, 12897, 63127, 75612, 42199,
       47630, 16736, 11, 2845, 686,
       4824 >>

Abs(x) == IF x < 0 THEN -x ELSE x

\* (O - E_perc) ** 2 / (E_perc or 1)
ChiTerm(O, E_perc) ==
    LET dev == Abs(O - E_perc) \div 100
        E == IF E_perc = 0 THEN 10000 ELSE E_perc
    IN  (dev * dev * 10) \div E

\* chi_squared(obs_counts, total_len, shift), total_len > 0
chi_squared(obs_counts, total_len, shift) ==
    SumSeq([L \in 1..NLetters |->
        LET shifted_letter == ((L - 1 + shift) % NLetters) + OrdA
            observed == DictGet(obs_counts, shifted_letter)
            O == (observed * 1000000) \div total_len
        IN  ChiTerm(O, freq_pt[L])])

\* float('inf')
Inf == -1

ShiftBetterOrEqual(score, best_score) == best_score = Inf \/ score <= best_score

\* score < best_score
ShiftBetter(score, best_score) == best_score = Inf \/ score < best_score

RECURSIVE ShiftScan(_, _, _, _, _)
\* for k in range(26): ... , from iteration k onwards; returns best_k.
ShiftScan(counts, n, k, best_k, best_score) ==
    IF k >= NLetters THEN best_k
    ELSE LET score == chi_squared(counts, n, k)
         IN  IF ShiftBetter(score, best_score)
             THEN ShiftScan(counts, n, k + 1, k, score)
             ELSE ShiftScan(counts, n, k + 1, best_k, best_score)

\* The key character of column i: chr(best_k + ord('A')).
ColumnKeyChar(t, i, key_length) ==
    LET group_i == Column(t, i, key_length)
    IN  ShiftScan(Counter(group_i), Len(group_i), 0, 0, Inf) + OrdA

(***************************************************************************)
(* __main__                                                                *)
(***************************************************************************)
\* (n-gram size, min occurrences)
tests == << <<3, 6>>, <<4, 5>>, <<5, 3>>, <<6, 2>>, <<7, 2>> >>

\* text[:500]
PrefixLen == 500
Prefix(t) == SubSeq(t, 1, IF Len(t) < PrefixLen THEN Len(t) ELSE PrefixLen)

\* 'A', 'N': what load_ciphertext can return is any string over A-Z.
TextChars == {65, 78}

MainIdle == /\ text = <<>> /\ pc = "idle" /\ tidx = 0 /\ list_dicts = <<>>
            /\ possible_keys_length = <<>> /\ greatest = <<0, RatZero>>
            /\ cidx = 0 /\ key = <<>> /\ output = <<>>

MainInit == /\ text \in SeqsUpTo(TextChars, MaxTextLen)
            /\ pc = "kasiski"
            /\ tidx = 1
            /\ list_dicts = <<>>
            /\ possible_keys_length = <<>>
            /\ greatest = <<0, RatZero>>
            /\ cidx = 0
            /\ key = <<>>
            /\ output = <<>>

\* One iteration of "for n, threshold in tests".
MainKasiski ==
    /\ pc = "kasiski"
    /\ tidx <= Len(tests)
    /\ list_dicts' = Append(list_dicts,
           list_to_dict(kasiski_test(text, tests[tidx][1], top, tests[tidx][2])))
    /\ tidx' = tidx + 1
    /\ UNCHANGED <<text, pc, possible_keys_length, greatest, cidx, key, output, notMain>>

\* for length, freq in count.most_common(3): if length > 2: append
Candidates(count) ==
    DictKeys(SelectSeq(MostCommon(count, 3), LAMBDA e : e[1] > 2))

\* sums = sum_dicts(list_dicts); count = Counter(sums); the selection loop;
\* greatest = (0, 0)
MainSelect ==
    /\ pc = "kasiski"
    /\ tidx > Len(tests)
    /\ possible_keys_length' = Candidates(sum_dicts(list_dicts))
    /\ greatest' = <<0, RatZero>>
    /\ cidx' = 1
    /\ pc' = "ic"
    /\ UNCHANGED <<text, tidx, list_dicts, key, output, notMain>>

GreaterOrEqual(k, ic_avg, g) == IF ~RatGT(g[2], ic_avg) THEN <<k, ic_avg>> ELSE g

\* if ic_avg > greatest[1]: greatest = (k, ic_avg)
Greater(k, ic_avg, g) == IF RatGT(ic_avg, g[2]) THEN <<k, ic_avg>> ELSE g

\* One iteration of "for k in possible_keys_length".
MainIC ==
    /\ pc = "ic"
    /\ cidx <= Len(possible_keys_length)
    /\ LET k == possible_keys_length[cidx]
       IN  greatest' = Greater(k, average_ic_for_key_length(text, k), greatest)
    /\ cidx' = cidx + 1
    /\ UNCHANGED <<text, pc, tidx, list_dicts, possible_keys_length, key, output, notMain>>

\* key = []
MainKeyStart ==
    /\ pc = "ic"
    /\ cidx > Len(possible_keys_length)
    /\ key' = <<>>
    /\ pc' = "key"
    /\ UNCHANGED <<text, tidx, list_dicts, possible_keys_length, greatest, cidx, output, notMain>>

\* One iteration of "for i in range(greatest[0])": i = len(key).
MainKeyColumn ==
    /\ pc = "key"
    /\ Len(key) < greatest[1]
    /\ key' = Append(key, ColumnKeyChar(text, Len(key), greatest[1]))
    /\ UNCHANGED <<text, pc, tidx, list_dicts, possible_keys_length, greatest, cidx, output, notMain>>

\* print(decrypt_vigenere(text[:500], estimated_key))
MainDecrypt ==
    /\ pc = "key"
    /\ Len(key) = greatest[1]
    /\ ~decrypt_vigenere(Prefix(text), key).raised
    /\ output' = decrypt_vigenere(Prefix(text), key).out
    /\ pc' = "done"
    /\ UNCHANGED <<text, tidx, list_dicts, possible_keys_length, greatest, cidx, key, notMain>>

MainDecryptRaise ==
    /\ pc = "key"
    /\ Len(key) = greatest[1]
    /\ decrypt_vigenere(Prefix(text), key).raised
    /\ pc' = "ZeroDivisionError"
    /\ UNCHANGED <<text, tidx, list_dicts, possible_keys_length, greatest, cidx, key, output, notMain>>

(***************************************************************************)
(* Specifications.                                                         *)
(***************************************************************************)
\* get_divisors, step by step
SpecDivInit == DivInit /\ DecIdle /\ IcIdle /\ KasIdle /\ MainIdle
SpecDivNext == DivIterate \/ DivReturn
SpecDiv == SpecDivInit /\ [][SpecDivNext]_vars

\* decrypt_vigenere, step by step
SpecDecInit == DivIdle /\ DecInit /\ IcIdle /\ KasIdle /\ MainIdle
SpecDecNext == DecScan \/ DecRaise \/ DecReturn
SpecDec == SpecDecInit /\ [][SpecDecNext]_vars

\* index_of_coincidence
SpecIcInit == DivIdle /\ DecIdle /\ IcInit /\ KasIdle /\ MainIdle
SpecIcNext == IcCall
SpecIc == SpecIcInit /\ [][SpecIcNext]_vars

\* kasiski_test, step by step
SpecKasInit == DivIdle /\ DecIdle /\ IcIdle /\ KasInit /\ MainIdle
SpecKasNext == KasPrepare \/ KasNgram \/ KasReturn
SpecKas == SpecKasInit /\ [][SpecKasNext]_vars

\* the pipeline of __main__
Init == DivIdle /\ DecIdle /\ IcIdle /\ KasIdle /\ MainInit
Next == \/ MainKasiski \/ MainSelect \/ MainIC \/ MainKeyStart
        \/ MainKeyColumn \/ MainDecrypt \/ MainDecryptRaise
Spec == Init /\ [][Next]_vars

(***************************************************************************)
(* Properties.                                                             *)
(***************************************************************************)
AllUpper(t) == \A j \in 1..Len(t) : IsUpper(t[j])

StrictlyAscending(q) == \A j \in 1..(Len(q) - 1) : q[j] < q[j + 1]

NoDuplicates(q) == \A i, j \in 1..Len(q) : i # j => q[i] # q[j]

\* The merged tally of __main__: the votes of a length summed over the runs.
MergedVotes(len) ==
    SumSeq([d \in 1..Len(list_dicts) |-> DictGet(list_dicts[d], len)])

MergedLengths == UNION {Range(DictKeys(list_dicts[d])) : d \in 1..Len(list_dicts)}

InTopOfTally(len) ==
    /\ len \in MergedLengths
    /\ Cardinality({l \in MergedLengths : MergedVotes(l) > MergedVotes(len)}) < top

\* The chi-squared score of shift s on a column, from the column's letters.
ScoreOf(col, s) ==
    SumSeq([L \in 1..26 |->
        ChiTerm((Occurrences(col, 65 + ((L - 1 + s) % 26)) * 1000000) \div Len(col),
                freq_pt[L])])

LeastShift(col, s) ==
    /\ s \in 0..25
    /\ \A r \in 0..25 : ScoreOf(col, s) <= ScoreOf(col, r)
    /\ \A r \in 0..(s - 1) : ScoreOf(col, r) > ScoreOf(col, s)

\* The number of A-Z characters of t before position p (1-based).
UpperBefore(t, p) == Cardinality({j \in 1..(p - 1) : IsUpper(t[j])})

\* The ordered pairs of distinct positions of t holding the same letter.
CoincidentPairs(t) ==
    Cardinality({p \in (1..Len(t)) \X (1..Len(t)) : p[1] # p[2] /\ t[p[1]] = t[p[2]]})

\* The occurrences of an n-gram in t, and the n-grams kept by a threshold.
NgramCount(t, n, ng) ==
    Cardinality({i \in 0..(Len(t) - n) : SubSeq(t, i + 1, i + n) = ng})

RetainedNgrams(t, n, threshold) ==
    {SubSeq(t, i + 1, i + n) : i \in {j \in 0..(Len(t) - n) :
        NgramCount(t, n, SubSeq(t, j + 1, j + n)) >= threshold}}

\* How many of the distances have v among their divisors.
DivisorVotes(dist, v) ==
    Cardinality({j \in 1..Len(dist) : v \in Range(get_divisors(dist[j]))})

DivisorsOf(dist) == UNION {Range(get_divisors(dist[j])) : j \in 1..Len(dist)}

FirstIndex(q, x) == Min({j \in 1..Len(q) : q[j] = x})

BallotIsCapped(b, dist, top_k) ==
    /\ NoDuplicates(b)
    /\ Len(b) <= top_k
    /\ Range(b) \subseteq DivisorsOf(dist)
    /\ Len(b) = IF Cardinality(DivisorsOf(dist)) < top_k
                THEN Cardinality(DivisorsOf(dist)) ELSE top_k
    /\ \A v \in Range(b) : \A w \in DivisorsOf(dist) \ Range(b) :
          DivisorVotes(dist, v) >= DivisorVotes(dist, w)

\* C1: when the candidate key-length set is empty, the run does not go on to
\* key recovery or decryption (with key length 0 and an empty key): it ends
\* in an explicit NoCandidateKeyLength failure instead.
C1_NoCandidateFails ==
    possible_keys_length = <<>> => pc \notin {"key", "done", "ZeroDivisionError"}

\* C2: for a non-empty key of letters A-Z and a text T of letters A-Z only,
\* decrypt_vigenere(encrypt(T, K), K) returns T, of the length of its input,
\* and does not raise.
C2_RoundTrip ==
    (Len(dkey) > 0 /\ AllUpper(dkey) /\ AllUpper(plain) /\ decpc # "idle") =>
        /\ decpc # "ZeroDivisionError"
        /\ decpc = "done" => (result = plain /\ Len(result) = Len(dtext))

C2_Witness ==
    /\ decpc = "done"
    /\ AllUpper(plain)
    /\ Len(plain) >= 3
    /\ Len(dkey) = 2
    /\ dkey[1] # dkey[2]
    /\ result = plain
    /\ \E j \in 1..Len(plain) : dtext[j] < plain[j]
    /\ \E j \in 1..Len(plain) : dtext[j] > plain[j]

\* C3: when a candidate exists, the selected key length is one of the
\* candidates (so > 2 and among the top 3 lengths of the merged tally), no
\* candidate has a greater average IC, and every candidate examined before
\* it has a strictly smaller one; (0, 0) is not the result.
C3_SelectedIsBestCandidate ==
    (pc \in {"key", "done", "ZeroDivisionError"} /\ possible_keys_length # <<>>) =>
        \E c \in 1..Len(possible_keys_length) :
            /\ greatest[1] = possible_keys_length[c]
            /\ greatest[1] > 2
            /\ InTopOfTally(greatest[1])
            /\ greatest[2] = average_ic_for_key_length(text, greatest[1])
            /\ greatest # <<0, RatZero>>
            /\ \A b \in 1..Len(possible_keys_length) :
                  ~RatGT(average_ic_for_key_length(text, possible_keys_length[b]),
                         greatest[2])
            /\ \A b \in 1..(c - 1) :
                  RatGT(greatest[2],
                        average_ic_for_key_length(text, possible_keys_length[b]))

C3_Witness ==
    /\ pc = "done"
    /\ Len(possible_keys_length) = 2
    /\ greatest[1] = possible_keys_length[1]
    /\ average_ic_for_key_length(text, possible_keys_length[1])
         = average_ic_for_key_length(text, possible_keys_length[2])

\* C4: the recovered key has exactly k letters A-Z for the selected key
\* length k, and its i-th letter is 'A' + s_i for the smallest shift s_i of
\* least chi-squared score on column i: no shift scores lower and every
\* smaller shift scores strictly higher. The score of shift s sums, over the
\* reference letters L, (O - E)^2 / E for the observed percentage O of the
\* letter (L + s) mod 26 in the column.
C4_KeyIsLeastChiSquared ==
    /\ pc = "key" => Len(key) <= greatest[1]
    /\ pc \in {"done", "ZeroDivisionError"} =>
          /\ Len(key) = greatest[1]
          /\ \A i \in 1..Len(key) :
                LeastShift(Column(text, i - 1, greatest[1]), key[i] - 65)

C4_Witness ==
    /\ pc = "done"
    /\ Len(key) >= 3
    /\ \E i \in 1..Len(key) :
          /\ key[i] # 65
          /\ \E r \in 0..25 :
                /\ r > key[i] - 65
                /\ ScoreOf(Column(text, i - 1, greatest[1]), r)
                     = ScoreOf(Column(text, i - 1, greatest[1]), key[i] - 65)

\* C5: for n >= 2, get_divisors(n) is a non-empty strictly ascending
\* sequence holding exactly the integers d with 2 <= d <= n that divide n,
\* n among them.
C5_DivisorsComplete ==
    (dpc = "done" /\ dn >= 2) =>
        /\ dres # <<>>
        /\ StrictlyAscending(dres)
        /\ dn \in Range(dres)
        /\ \A j \in 1..Len(dres) : 2 <= dres[j] /\ dres[j] <= dn /\ dn % dres[j] = 0
        /\ Range(dres) = {d \in 2..dn : dn % d = 0}

C5_Witness == dpc = "done" /\ dn >= 2 /\ Len(dres) >= 8

\* C6: get_divisors(0) returns an empty result, in particular not the value 0.
C6_ZeroHasNoDivisor == (dpc = "done" /\ dn = 0) => dres = <<>>

\* C7: with a non-empty key, at every step of the scan the key cursor is the
\* number of A-Z characters already processed, each character outside A-Z
\* is in the output unchanged at its own position, and the j-th A-Z
\* character (0-based) is replaced by (c - key[j mod len(key)]) mod 26.
C7_CursorCountsLetters ==
    (decpc \in {"scan", "done"} /\ Len(dkey) > 0) =>
        /\ ki = UpperBefore(dtext, dpos)
        /\ Len(result) = dpos - 1
        /\ \A p \in 1..(dpos - 1) :
              result[p] =
                  IF IsUpper(dtext[p])
                  THEN 65 + ((dtext[p] - dkey[(UpperBefore(dtext, p) % Len(dkey)) + 1]) % 26)
                  ELSE dtext[p]

C7_Witness ==
    /\ decpc = "done"
    /\ Len(dkey) = 2
    /\ dkey[1] # dkey[2]
    /\ Len(dtext) = 3
    /\ IsUpper(dtext[1]) /\ ~IsUpper(dtext[2]) /\ IsUpper(dtext[3])
    /\ ki = 2

\* C8: index_of_coincidence returns 0 for a text of length N <= 1; for
\* N >= 2 it returns sum f(f-1) / (N(N-1)), which is in [0, 1] and is 1 for
\* one letter repeated N times.
C8_IndexOfCoincidence ==
    icpc = "done" =>
        /\ Len(ictext) <= 1 => icres = RatZero
        /\ Len(ictext) >= 2 =>
              /\ icres[2] > 0
              /\ icres[1] * Len(ictext) * (Len(ictext) - 1)
                   = icres[2] * CoincidentPairs(ictext)
              /\ 0 <= icres[1] /\ icres[1] <= icres[2]
              /\ Cardinality(Range(ictext)) = 1 => icres = <<1, 1>>

C8_Witness ==
    /\ icpc = "done"
    /\ Len(ictext) >= 4
    /\ Cardinality(Range(ictext)) = 1
    /\ icres = <<1, 1>>

C10_LengthsAtLeastTwo ==
    kpc = "done" =>
        /\ \A i \in 1..Len(kdist) : \A j \in 1..Len(kdist[i][2]) : kdist[i][2][j] > 0
        /\ \A e \in 1..Len(ktop) :
              /\ ktop[e][1] >= 2
              /\ \E i \in 1..Len(kdist) : \E j \in 1..Len(kdist[i][2]) :
                    kdist[i][2][j] % ktop[e][1] = 0
====
